---- MODULE Spec2Model ----
(***************************************************************************)
(* Model of etcdclient.SimpleEtcdClient (src/etcdclient/etcdclient.go): a  *)
(* facade over the etcd v2 keys API.  The client holds no state of its     *)
(* own, so the state is the store behind client.KeysAPI (node tree,        *)
(* cluster index, bounded event history, one registered watcher) plus the  *)
(* position of the two multi-request calls, MkDir and WatchRecursive.      *)
(*                                                                         *)
(* The store is modelled as the etcd v2 store answers the requests the     *)
(* client sends: KeyNotFound / NotDir / NotFile errors, Set replacing a    *)
(* file but refusing a directory, Update requiring the node to exist,      *)
(* Delete with dir/recursive, watch with waitIndex against the event       *)
(* history, and the X-Etcd-Index header that client.Response.Index holds.  *)
(* Errors carry their Go dynamic type, because the code switches on it.    *)
(***************************************************************************)
EXTENDS Integers, Sequences, FiniteSets, TLC

VARIABLES
    store,       \* [tree, CurrentIndex, History]: the etcd store
    last,        \* the last completed client call and what it returned
    lastSet,     \* the last successful Set whose key was not mutated since
    mk,          \* MkDir between its Get and its Set
    pc,          \* WatchRecursive's position: idle/request/waiting/received/returned
    afterIndex,  \* WatchRecursive's cursor
    reg,         \* the watcher registered in the store's watcher hub
    resp,        \* the response watcher.Next is about to return
    lastAnswer,  \* the store's answer to the latest watch request
    delivered,   \* the onChange invocations so far, in order
    retErr,      \* what WatchRecursive returned
    log,         \* every event the store produced since the watch was called
    startIdx     \* the cluster index when the first watch request was registered

vars == <<store, last, lastSet, mk, pc, afterIndex, reg, resp, lastAnswer,
          delivered, retErr, log, startIdx>>

watchVars == <<pc, afterIndex, reg, resp, lastAnswer, delivered, retErr, startIdx>>

-----------------------------------------------------------------------------
(* Bounds *)

\* The store's index is capped: no mutation is accepted at MaxIndex.
MaxIndex == 4

\* Capacity of the store's event history (1000 in etcd), scaled down.
HistoryCapacity == 2

-----------------------------------------------------------------------------
(* Keys, values, nodes *)

\* A key "/a/b" is the sequence <<"a", "b">>; "/" is <<>>.
Root == <<>>

Keys == { <<"a">>, <<"a", "b">>, <<"a", "b", "c">>, <<"a", "x">> }

Values == {"1", "2"}

\* time.Duration arguments of UpdateDirWithTTL: 0 (no ttl sent) and a positive one.
TTLs == {0, 1}

\* Byte order of the one-letter names, as Go compares strings.
NameRank == ("a" :> 1) @@ ("b" :> 2) @@ ("c" :> 3) @@ ("x" :> 4)

IsPrefix(p, q) == Len(p) <= Len(q) /\ SubSeq(q, 1, Len(p)) = p

IsProperPrefix(p, q) == IsPrefix(p, q) /\ p # q

Parent(k) == SubSeq(k, 1, Len(k) - 1)

Absent == [kind |-> "absent", value |-> "", ttl |-> 0]

Leaf(v, ttl) == [kind |-> "leaf", value |-> v, ttl |-> ttl]

DirNode(ttl) == [kind |-> "dir", value |-> "", ttl |-> ttl]

nodeAt(t, k) == IF k = Root THEN DirNode(0) ELSE t[k]

ChildKeys(t, k) == { c \in Keys : Parent(c) = k /\ t[c].kind # "absent" }

-----------------------------------------------------------------------------
(* Errors: a Go error value with its dynamic type *)

Nil == [type |-> "nil", Code |-> ""]

\* What the etcd client returns for an error response of the store: a
\* client.Error value, the type client.IsKeyNotFound asserts (err.(Error)),
\* not a pointer to one.
Error(code) == [type |-> "client.Error", Code |-> code]

\* A failure below the keys API (connection, context): not a client.Error.
TransportError == [type |-> "other", Code |-> "transport"]

IsKeyNotFound(err) == err.type = "client.Error" /\ err.Code = "KeyNotFound"

\* etcdclient.go:204-211: the type switch matches *client.Error only.
shouldIgnoreError(err) ==
    IF err.type = "*client.Error"
    THEN err.Code = "EventIndexCleared"
    ELSE FALSE

-----------------------------------------------------------------------------
(* The store: reads *)

RECURSIVE walk(_, _, _)
\* store.internalGet: resolve key component by component; i components are
\* resolved.  "" is success, otherwise the error code.
walk(t, key, i) ==
    IF i = Len(key) THEN ""
    ELSE IF nodeAt(t, SubSeq(key, 1, i)).kind # "dir" THEN "NotDir"
    ELSE IF nodeAt(t, SubSeq(key, 1, i + 1)).kind = "absent" THEN "KeyNotFound"
    ELSE walk(t, key, i + 1)

internalGet(t, key) == walk(t, key, 0)

KeyLess(p, q) == NameRank[p[Len(p)]] < NameRank[q[Len(q)]]

RECURSIVE SortKeys(_)
\* sort.Sort(NodeExterns): siblings in ascending key order.
SortKeys(S) ==
    IF S = {} THEN <<>>
    ELSE LET m == CHOOSE x \in S : \A y \in S \ {x} : KeyLess(x, y)
         IN  <<m>> \o SortKeys(S \ {m})

RECURSIVE MapOrderKeys(_)
\* Without Sort the store lists a directory in map order; descending order
\* stands for an order that is not the sorted one.
MapOrderKeys(S) ==
    IF S = {} THEN <<>>
    ELSE LET m == CHOOSE x \in S : \A y \in S \ {x} : KeyLess(y, x)
         IN  <<m>> \o MapOrderKeys(S \ {m})

RECURSIVE NodeExtern(_, _, _, _, _)
\* The client.Node of key k.  list: whether k's children are listed (always for
\* the requested node, for a child only under Recursive).
NodeExtern(t, k, list, recursive, sorted) ==
    LET n  == nodeAt(t, k)
        ks == IF sorted THEN SortKeys(ChildKeys(t, k))
              ELSE MapOrderKeys(ChildKeys(t, k))
    IN  [Key   |-> k,
         Value |-> n.value,
         Dir   |-> n.kind = "dir",
         Nodes |-> IF n.kind = "dir" /\ list
                   THEN [i \in 1..Len(ks) |->
                            NodeExtern(t, ks[i], recursive, recursive, sorted)]
                   ELSE <<>>]

NoNode == [Key |-> Root, Value |-> "", Dir |-> FALSE, Nodes |-> <<>>]

GetOptionsNil == [Recursive |-> FALSE, Sort |-> FALSE]

\* KeysAPI.Get
apiGet(st, key, opts) ==
    LET g == internalGet(st.tree, key)
    IN  IF g # ""
        THEN [err |-> Error(g), Node |-> NoNode]
        ELSE [err |-> Nil,
              Node |-> NodeExtern(st.tree, key, TRUE, opts.Recursive, opts.Sort)]

-----------------------------------------------------------------------------
(* The store: writes.  Each returns [err, store, ev]. *)

NoEvent == [Index |-> 0, Action |-> "", Key |-> Root, Value |-> "", PrevDir |-> FALSE]

\* EventHistory.addEvent: a queue of the last HistoryCapacity events.
addEvent(h, e) ==
    IF Len(h) < HistoryCapacity THEN Append(h, e) ELSE Append(Tail(h), e)

fail(st, code) == [err |-> Error(code), store |-> st, ev |-> NoEvent]

commit(st, t2, action, key, value, prevDir) ==
    LET e == [Index |-> st.CurrentIndex + 1, Action |-> action, Key |-> key,
              Value |-> value, PrevDir |-> prevDir]
    IN  [err   |-> Nil,
         store |-> [tree |-> t2, CurrentIndex |-> st.CurrentIndex + 1,
                    History |-> addEvent(st.History, e)],
         ev    |-> e]

\* store.Set (internalCreate with replace): creates the missing ancestors,
\* replaces an existing file, refuses an existing directory.
storeSet(st, key, dir, value, ttl) ==
    LET t == st.tree
        g == internalGet(t, key)
    IN  IF g \notin {"", "KeyNotFound"} THEN fail(st, g)
        ELSE IF t[key].kind = "dir" THEN fail(st, "NotFile")
        ELSE commit(st,
                    [k \in Keys |->
                        IF k = key
                        THEN (IF dir THEN DirNode(ttl) ELSE Leaf(value, ttl))
                        ELSE IF IsProperPrefix(k, key) /\ t[k].kind = "absent"
                        THEN DirNode(0)
                        ELSE t[k]],
                    "set", key, IF dir THEN "" ELSE value, FALSE)

\* store.Update: the node must exist; a file gets the new value, a directory
\* only a new ttl (a non-empty value is refused).
storeUpdate(st, key, value, ttl) ==
    LET t == st.tree
        g == internalGet(t, key)
    IN  IF g # "" THEN fail(st, g)
        ELSE IF t[key].kind = "dir" /\ value # "" THEN fail(st, "NotFile")
        ELSE commit(st,
                    [t EXCEPT ![key] = IF t[key].kind = "dir" THEN DirNode(ttl)
                                       ELSE Leaf(value, ttl)],
                    "update", key, value, FALSE)

removeSubtree(t, key) ==
    [k \in Keys |-> IF IsPrefix(key, k) THEN Absent ELSE t[k]]

\* store.Delete: recursive implies dir; a directory needs dir, a non-empty one
\* needs recursive; a file is removed whatever the flags.
storeDelete(st, key, dir, recursive) ==
    LET t == st.tree
        g == internalGet(t, key)
    IN  IF g # "" THEN fail(st, g)
        ELSE IF t[key].kind = "dir" /\ ~(dir \/ recursive) THEN fail(st, "NotFile")
        ELSE IF t[key].kind = "dir" /\ ChildKeys(t, key) # {} /\ ~recursive
        THEN fail(st, "DirNotEmpty")
        ELSE commit(st, removeSubtree(t, key), "delete", key, "",
                    t[key].kind = "dir")

\* store.DeleteExpiredKeys for one node whose ttl ran out.
storeExpire(st, key) ==
    commit(st, removeSubtree(st.tree, key), "expire", key, "",
           st.tree[key].kind = "dir")

\* KeysAPI.Set: the server applies a PUT with prevExist=true as Update and
\* one without prevExist as Set; the dir flag is read by Set only.
apiSet(st, key, value, opts) ==
    IF opts.PrevExist = "PrevExist"
    THEN storeUpdate(st, key, value, opts.TTL)
    ELSE storeSet(st, key, opts.Dir, value, opts.TTL)

\* KeysAPI.Delete; nil options are dir = recursive = false.
apiDelete(st, key, opts) == storeDelete(st, key, opts.Dir, opts.Recursive)

-----------------------------------------------------------------------------
(* The store: watch *)

\* EventHistory.scan and watcherHub.notify: which events a watcher on key sees.
Matches(e, key, recursive) ==
    \/ e.Key = key
    \/ recursive /\ IsProperPrefix(key, e.Key)
    \/ e.Action \in {"delete", "expire"} /\ e.PrevDir /\ IsPrefix(e.Key, key)

StartIndex(h) == IF h = <<>> THEN 0 ELSE h[1].Index

LastIndex(h) == IF h = <<>> THEN 0 ELSE h[Len(h)].Index

\* EventHistory.scan: the first retained event at or after index that the
\* watcher sees; an index older than the history is EventIndexCleared.
scan(h, key, recursive, index) ==
    IF index < StartIndex(h)
    THEN [kind |-> "error", err |-> Error("EventIndexCleared"), ev |-> NoEvent]
    ELSE IF index > LastIndex(h)
    THEN [kind |-> "wait", err |-> Nil, ev |-> NoEvent]
    ELSE LET hit == { i \in 1..Len(h) :
                        h[i].Index >= index /\ Matches(h[i], key, recursive) }
         IN  IF hit = {}
             THEN [kind |-> "wait", err |-> Nil, ev |-> NoEvent]
             ELSE [kind |-> "event", err |-> Nil,
                   ev |-> h[CHOOSE i \in hit : \A j \in hit : i <= j]]

\* client.Watcher: AfterIndex > 0 is sent as waitIndex = AfterIndex + 1.
waitIndexOf(opts) == IF opts.AfterIndex > 0 THEN opts.AfterIndex + 1 ELSE 0

\* store.Watch: no waitIndex means "from now", the next index.
sinceIndexOf(st, waitIndex) ==
    IF waitIndex = 0 THEN st.CurrentIndex + 1 ELSE waitIndex

\* KeysAPI.Watcher(...).Next at the moment the store receives the request.
apiWatch(st, key, opts) ==
    scan(st.History, key, opts.Recursive, sinceIndexOf(st, waitIndexOf(opts)))

-----------------------------------------------------------------------------
(* The client: etcdclient.go *)

\* Get with line 98 returning the empty string instead of the node's value.
Get_DropsValue(st, key) ==
    LET r == apiGet(st, key, GetOptionsNil)
    IN  IF r.err # Nil /\ ~IsKeyNotFound(r.err)
        THEN [ret |-> "", err |-> r.err]
        ELSE [ret |-> "", err |-> Nil]

Get(st, key) ==
    LET r == apiGet(st, key, GetOptionsNil)
    IN  IF r.err # Nil
        THEN IF IsKeyNotFound(r.err)
             THEN [ret |-> "", err |-> Nil]
             ELSE [ret |-> "", err |-> r.err]
        ELSE [ret |-> r.Node.Value, err |-> Nil]

Set(st, key, value) ==
    apiSet(st, key, value, [Dir |-> FALSE, TTL |-> 0, PrevExist |-> "PrevIgnore"])

\* Del without lines 69-71: KeyNotFound is returned like any other error.
Del_NoSuppress(st, key) ==
    apiDelete(st, key, [Dir |-> FALSE, Recursive |-> FALSE])

Del(st, key) ==
    LET r == apiDelete(st, key, [Dir |-> FALSE, Recursive |-> FALSE])
    IN  IF r.err # Nil /\ IsKeyNotFound(r.err) THEN [r EXCEPT !.err = Nil] ELSE r

DelDir(st, key) ==
    LET r == apiDelete(st, key, [Dir |-> TRUE, Recursive |-> TRUE])
    IN  IF r.err # Nil /\ IsKeyNotFound(r.err) THEN [r EXCEPT !.err = Nil] ELSE r

UpdateDirWithTTL(st, key, ttl) ==
    apiSet(st, key, "", [Dir |-> TRUE, TTL |-> ttl, PrevExist |-> "PrevExist"])

RECURSIVE nodesToStringSlice_PostOrder(_)
\* nodesToStringSlice appending a node's key after its subtree.
nodesToStringSlice_PostOrder(nodes) ==
    IF nodes = <<>> THEN <<>>
    ELSE nodesToStringSlice_PostOrder(nodes[1].Nodes) \o <<nodes[1].Key>>
             \o nodesToStringSlice_PostOrder(Tail(nodes))

RECURSIVE nodesToStringSlice(_)
nodesToStringSlice(nodes) ==
    IF nodes = <<>> THEN <<>>
    ELSE <<nodes[1].Key>> \o nodesToStringSlice(nodes[1].Nodes)
                          \o nodesToStringSlice(Tail(nodes))

\* Ls asking the store for the whole subtree (Recursive: true at line 118).
Ls_Recursive(st, directory) ==
    LET r == apiGet(st, directory, [Recursive |-> TRUE, Sort |-> TRUE])
    IN  IF r.err # Nil
        THEN IF IsKeyNotFound(r.err)
             THEN [list |-> <<>>, err |-> Nil]
             ELSE [list |-> <<>>, err |-> r.err]
        ELSE [list |-> nodesToStringSlice(r.Node.Nodes), err |-> Nil]

Ls(st, directory) ==
    LET r == apiGet(st, directory, [Recursive |-> FALSE, Sort |-> TRUE])
    IN  IF r.err # Nil
        THEN IF IsKeyNotFound(r.err)
             THEN [list |-> <<>>, err |-> Nil]
             ELSE [list |-> <<>>, err |-> r.err]
        ELSE [list |-> nodesToStringSlice(r.Node.Nodes), err |-> Nil]

LsRecursive(st, directory) ==
    LET r == apiGet(st, directory, [Recursive |-> TRUE, Sort |-> TRUE])
    IN  IF r.err # Nil
        THEN IF IsKeyNotFound(r.err)
             THEN [list |-> <<>>, err |-> Nil]
             ELSE [list |-> <<>>, err |-> r.err]
        ELSE [list |-> nodesToStringSlice(r.Node.Nodes), err |-> Nil]

\* fmt.Errorf("Refusing to overwrite key/value with a directory: %v", directory)
RefusingToOverwrite == [type |-> "fmt.Errorf", Code |-> "RefusingToOverwrite"]

\* MkDirGet without lines 161-163: an existing node of any kind is accepted.
MkDirGet_NoDirCheck(st, directory) ==
    LET r == apiGet(st, directory, GetOptionsNil)
    IN  IF r.err # Nil /\ ~IsKeyNotFound(r.err) THEN [next |-> "return", err |-> r.err]
        ELSE IF r.err # Nil /\ IsKeyNotFound(r.err) THEN [next |-> "set", err |-> Nil]
        ELSE [next |-> "return", err |-> Nil]

\* MkDir, lines 150-164 without the Set: the Get and the decision.  next = "set"
\* when the call goes on to line 157, "return" when it returns err.
MkDirGet(st, directory) ==
    LET r == apiGet(st, directory, GetOptionsNil)
    IN  IF r.err # Nil /\ ~IsKeyNotFound(r.err) THEN [next |-> "return", err |-> r.err]
        ELSE IF r.err # Nil /\ IsKeyNotFound(r.err) THEN [next |-> "set", err |-> Nil]
        ELSE IF ~r.Node.Dir THEN [next |-> "return", err |-> RefusingToOverwrite]
        ELSE [next |-> "return", err |-> Nil]

\* MkDir, line 157.
MkDirSet(st, directory) ==
    apiSet(st, directory, "", [Dir |-> TRUE, TTL |-> 0, PrevExist |-> "PrevIgnore"])

-----------------------------------------------------------------------------
(* State *)

\* The directory WatchRecursive is called with.
WatchDir == <<"a", "b">>

EmptyStore ==
    [tree |-> [k \in Keys |-> Absent], CurrentIndex |-> 1, History |-> <<>>]

NoCall ==
    [op |-> "", key |-> Root, ttl |-> 0, ret |-> "", list |-> <<>>, err |-> Nil,
     pre |-> Absent, preErr |-> "", post |-> Absent, changedOther |-> FALSE,
     at |-> 0]

NoSet == [key |-> Root, value |-> "", pre |-> Absent]

NoMk == [pc |-> "idle", key |-> Root]

NoReg == [active |-> FALSE, sinceIndex |-> 0, startIndex |-> 0]

NoResp == [ev |-> NoEvent, Index |-> 0]

\* What a completed call is remembered by: its result, the node at its key
\* before (st0) and after (st1), and whether any other key changed.
Result(op, key, ret, list, err, st0, st1) ==
    [op |-> op, key |-> key, ttl |-> 0, ret |-> ret, list |-> list, err |-> err,
     pre |-> nodeAt(st0.tree, key), preErr |-> internalGet(st0.tree, key),
     post |-> nodeAt(st1.tree, key),
     changedOther |-> \E k \in Keys \ {key} : st0.tree[k] # st1.tree[k],
     at |-> st1.CurrentIndex]

Touches(k1, k2) == IsPrefix(k1, k2) \/ IsPrefix(k2, k1)

\* watcherHub.notify: a registered watcher that sees ev is handed it and
\* removed.  client.Response.Index is the X-Etcd-Index header, "the
\* cluster-level index at the time the Response was generated ... not tied
\* to the Node(s) contained in this Response": for a watch, the index the
\* store had when the watcher was created.  The event's own index is
\* Node.ModifiedIndex (ev.Index here).
Notify(ev) ==
    /\ IF reg.active /\ ev # NoEvent /\ Matches(ev, WatchDir, TRUE)
          /\ ev.Index >= reg.sinceIndex
       THEN /\ pc' = "received"
            /\ resp' = [ev |-> ev, Index |-> reg.startIndex]
            /\ reg' = NoReg
            /\ lastAnswer' = "event"
       ELSE UNCHANGED <<pc, resp, reg, lastAnswer>>
    /\ log' = IF pc = "idle" \/ ev = NoEvent THEN log ELSE Append(log, ev)
    /\ UNCHANGED <<afterIndex, delivered, retErr, startIdx>>

\* The store takes the outcome r of a write.
Apply(r) ==
    /\ store' = r.store
    /\ Notify(r.ev)

\* A successful write at or above or below lastSet's key ends its validity.
KeepSet(r) ==
    IF r.ev # NoEvent /\ lastSet # NoSet /\ Touches(r.ev.Key, lastSet.key)
    THEN NoSet ELSE lastSet

Init ==
    /\ store = EmptyStore
    /\ last = NoCall
    /\ lastSet = NoSet
    /\ mk = NoMk
    /\ pc = "idle"
    /\ afterIndex = 0
    /\ reg = NoReg
    /\ resp = NoResp
    /\ lastAnswer = ""
    /\ delivered = <<>>
    /\ retErr = Nil
    /\ log = <<>>
    /\ startIdx = 0

-----------------------------------------------------------------------------
(* Client calls, each one request to the store *)

CallGet(key) ==
    LET r == Get(store, key)
    IN  /\ last' = Result("Get", key, r.ret, <<>>, r.err, store, store)
        /\ UNCHANGED <<store, lastSet, mk, log>>
        /\ UNCHANGED watchVars

CallSet(key, value) ==
    /\ store.CurrentIndex < MaxIndex
    /\ LET r == Set(store, key, value)
       IN  /\ Apply(r)
           /\ last' = Result("Set", key, value, <<>>, r.err, store, r.store)
           /\ lastSet' = IF r.err = Nil
                         THEN [key |-> key, value |-> value, pre |-> store.tree[key]]
                         ELSE lastSet
    /\ UNCHANGED mk

CallDel(key) ==
    /\ store.CurrentIndex < MaxIndex
    /\ LET r == Del(store, key)
       IN  /\ Apply(r)
           /\ last' = Result("Del", key, "", <<>>, r.err, store, r.store)
           /\ lastSet' = KeepSet(r)
    /\ UNCHANGED mk

CallDelDir(key) ==
    /\ store.CurrentIndex < MaxIndex
    /\ LET r == DelDir(store, key)
       IN  /\ Apply(r)
           /\ last' = Result("DelDir", key, "", <<>>, r.err, store, r.store)
           /\ lastSet' = KeepSet(r)
    /\ UNCHANGED mk

CallUpdateDirWithTTL(key, ttl) ==
    /\ store.CurrentIndex < MaxIndex
    /\ LET r == UpdateDirWithTTL(store, key, ttl)
       IN  /\ Apply(r)
           /\ last' = [Result("UpdateDirWithTTL", key, "", <<>>, r.err, store, r.store)
                          EXCEPT !.ttl = ttl]
           /\ lastSet' = KeepSet(r)
    /\ UNCHANGED mk

CallLs(directory) ==
    LET r == Ls(store, directory)
    IN  /\ last' = Result("Ls", directory, "", r.list, r.err, store, store)
        /\ UNCHANGED <<store, lastSet, mk, log>>
        /\ UNCHANGED watchVars

CallLsRecursive(directory) ==
    LET r == LsRecursive(store, directory)
    IN  /\ last' = Result("LsRecursive", directory, "", r.list, r.err, store, store)
        /\ UNCHANGED <<store, lastSet, mk, log>>
        /\ UNCHANGED watchVars

-----------------------------------------------------------------------------
(* MkDir: a Get, then (on KeyNotFound) a Set; other calls may come between *)

MkDirBegin(directory) ==
    /\ mk.pc = "idle"
    /\ LET g == MkDirGet(store, directory)
       IN  IF g.next = "set"
           THEN /\ mk' = [pc |-> "set", key |-> directory]
                /\ UNCHANGED last
           ELSE /\ last' = Result("MkDir", directory, "", <<>>, g.err, store, store)
                /\ UNCHANGED mk
    /\ UNCHANGED <<store, lastSet, log>>
    /\ UNCHANGED watchVars

MkDirFinish ==
    /\ mk.pc = "set"
    /\ store.CurrentIndex < MaxIndex
    /\ LET r == MkDirSet(store, mk.key)
       IN  /\ Apply(r)
           /\ last' = Result("MkDir", mk.key, "", <<>>, r.err, store, r.store)
           /\ lastSet' = KeepSet(r)
    /\ mk' = NoMk

\* The store removes a node whose ttl ran out.
Expire(key) ==
    /\ store.CurrentIndex < MaxIndex
    /\ store.tree[key].ttl > 0
    /\ LET r == storeExpire(store, key)
       IN  /\ Apply(r)
           /\ lastSet' = KeepSet(r)
    /\ UNCHANGED <<last, mk>>

\* One client, one call at a time: a MkDir that went on to its Set finishes
\* before the next call starts.
Next ==
    \/ mk.pc = "idle" /\ \E k \in Keys : CallGet(k)
    \/ mk.pc = "idle" /\ \E k \in Keys, v \in Values : CallSet(k, v)
    \/ mk.pc = "idle" /\ \E k \in Keys : CallDel(k)
    \/ mk.pc = "idle" /\ \E k \in Keys : CallDelDir(k)
    \/ mk.pc = "idle" /\ \E k \in Keys, ttl \in TTLs : CallUpdateDirWithTTL(k, ttl)
    \/ mk.pc = "idle" /\ \E d \in Keys \cup {Root} : CallLs(d)
    \/ mk.pc = "idle" /\ \E d \in Keys \cup {Root} : CallLsRecursive(d)
    \/ \E d \in Keys : MkDirBegin(d)
    \/ MkDirFinish
    \/ mk.pc = "idle" /\ \E k \in Keys : Expire(k)

Spec == Init /\ [][Next]_vars

-----------------------------------------------------------------------------
(* Other clients of the same store: their successful writes *)

OtherSet(key, value) ==
    /\ store.CurrentIndex < MaxIndex
    /\ LET r == Set(store, key, value)
       IN  r.err = Nil /\ Apply(r)
    /\ UNCHANGED <<last, lastSet, mk>>

OtherDel(key) ==
    /\ store.CurrentIndex < MaxIndex
    /\ LET r == Del(store, key)
       IN  r.ev # NoEvent /\ Apply(r)
    /\ UNCHANGED <<last, lastSet, mk>>

OtherDelDir(key) ==
    /\ store.CurrentIndex < MaxIndex
    /\ LET r == DelDir(store, key)
       IN  r.ev # NoEvent /\ Apply(r)
    /\ UNCHANGED <<last, lastSet, mk>>

OtherUpdateDirWithTTL(key, ttl) ==
    /\ store.CurrentIndex < MaxIndex
    /\ LET r == UpdateDirWithTTL(store, key, ttl)
       IN  r.err = Nil /\ Apply(r)
    /\ UNCHANGED <<last, lastSet, mk>>

\* A client in MkDir while other clients write to the same store.
RaceNext ==
    \/ \E d \in Keys : MkDirBegin(d)
    \/ MkDirFinish
    \/ \E k \in Keys, v \in Values : OtherSet(k, v)
    \/ \E k \in Keys : OtherDel(k)
    \/ \E k \in Keys : OtherDelDir(k)
    \/ \E k \in Keys, ttl \in TTLs : OtherUpdateDirWithTTL(k, ttl)
    \/ \E k \in Keys : Expire(k)

RaceSpec == Init /\ [][RaceNext]_vars

-----------------------------------------------------------------------------
(* WatchRecursive: a loop of watch requests, while other clients write *)

IsErrorAnswer(a) == a \notin {"", "event", "wait"}

\* Lines 176-183 up to the store's first answer: the request reaches the
\* store with waitIndex from the cursor.  An error answer is ignored (the
\* loop goes round) or returned; an event already in the history is answered
\* at once; otherwise a watcher is registered and Next blocks.
WatchRequest ==
    /\ pc = "request"
    /\ LET opts == [Recursive |-> TRUE, AfterIndex |-> afterIndex]
           a    == apiWatch(store, WatchDir, opts)
       IN  CASE a.kind = "error" ->
                  /\ lastAnswer' = a.err.Code
                  /\ IF shouldIgnoreError(a.err)
                     THEN UNCHANGED <<pc, retErr>>
                     ELSE pc' = "returned" /\ retErr' = a.err
                  /\ UNCHANGED <<resp, reg, startIdx>>
             [] a.kind = "event" ->
                  /\ lastAnswer' = "event"
                  /\ resp' = [ev |-> a.ev, Index |-> store.CurrentIndex]
                  /\ pc' = "received"
                  /\ startIdx' = IF startIdx = 0 THEN store.CurrentIndex ELSE startIdx
                  /\ UNCHANGED <<reg, retErr>>
             [] OTHER ->
                  /\ lastAnswer' = "wait"
                  /\ reg' = [active |-> TRUE,
                             sinceIndex |-> sinceIndexOf(store, waitIndexOf(opts)),
                             startIndex |-> store.CurrentIndex]
                  /\ pc' = "waiting"
                  /\ startIdx' = IF startIdx = 0 THEN store.CurrentIndex ELSE startIdx
                  /\ UNCHANGED <<resp, retErr>>
    /\ UNCHANGED <<store, last, lastSet, mk, afterIndex, delivered, log>>

\* Lines 185-186: the cursor takes response.Index and the callback runs.
WatchDeliver ==
    /\ pc = "received"
    /\ afterIndex' = resp.Index
    /\ delivered' = Append(delivered, [Key |-> resp.ev.Key, Value |-> resp.ev.Value,
                                       Index |-> resp.ev.Index])
    /\ resp' = NoResp
    /\ pc' = "request"
    /\ UNCHANGED <<store, last, lastSet, mk, reg, lastAnswer, retErr, log, startIdx>>

\* Lines 178-182 for an error that is no answer of the store: the request
\* fails below the keys API, sent or blocked.
WatchFail ==
    /\ pc \in {"request", "waiting"}
    /\ lastAnswer' = TransportError.Code
    /\ pc' = "returned"
    /\ retErr' = TransportError
    /\ reg' = NoReg
    /\ UNCHANGED <<store, last, lastSet, mk, afterIndex, resp, delivered, log, startIdx>>

WatchInit ==
    /\ store = EmptyStore
    /\ last = NoCall
    /\ lastSet = NoSet
    /\ mk = NoMk
    /\ pc = "request"
    /\ afterIndex = 0
    /\ reg = NoReg
    /\ resp = NoResp
    /\ lastAnswer = ""
    /\ delivered = <<>>
    /\ retErr = Nil
    /\ log = <<>>
    /\ startIdx = 0

WatchNext ==
    \/ WatchRequest
    \/ WatchDeliver
    \/ WatchFail
    \/ \E k \in Keys, v \in Values : OtherSet(k, v)
    \/ \E k \in Keys : OtherDel(k)
    \/ \E k \in Keys : OtherDelDir(k)
    \/ \E k \in Keys, ttl \in TTLs : OtherUpdateDirWithTTL(k, ttl)
    \/ \E k \in Keys : Expire(k)

WatchSpec == WatchInit /\ [][WatchNext]_vars

-----------------------------------------------------------------------------
(* Properties of the single-request calls and of MkDir, under Spec *)

Unchanged(l) == l.pre = l.post /\ ~l.changedOther

\* Nothing was written since the last call returned.
Current(l) == l.at = store.CurrentIndex

Descendants(t, d) == { k \in Keys : IsProperPrefix(d, k) /\ t[k].kind # "absent" }

\* p comes before q in a depth-first pre-order walk with siblings in
\* ascending name order: p is an ancestor of q, or p's name is the smaller
\* one where the two paths part.
PreOrderLess(p, q) ==
    \/ IsProperPrefix(p, q)
    \/ \E i \in 1..Len(p) :
          /\ i <= Len(q)
          /\ SubSeq(p, 1, i - 1) = SubSeq(q, 1, i - 1)
          /\ NameRank[p[i]] < NameRank[q[i]]

\* list holds exactly the keys of S, each once, in pre-order.
IsListingOf(list, S) ==
    /\ Len(list) = Cardinality(S)
    /\ { list[i] : i \in 1..Len(list) } = S
    /\ \A i, j \in 1..Len(list) : i < j => PreOrderLess(list[i], list[j])

\* C5 as claimed: MkDir creates the directory whenever the path is absent,
\* leaves an existing directory alone, and refuses an existing leaf.
C5_MkDirThreeCases ==
    last.op = "MkDir" =>
        CASE last.pre.kind = "absent" ->
                last.err = Nil /\ last.post = DirNode(0)
          [] last.pre.kind = "dir" ->
                last.err = Nil /\ Unchanged(last)
          [] OTHER ->
                last.err = RefusingToOverwrite /\ Unchanged(last)

\* C5 amended: an absent path is created (no error, an empty directory, and
\* nothing else changed but missing ancestors becoming directories) when no
\* ancestor is a leaf; with a leaf ancestor MkDir returns the store's NotDir
\* error and changes nothing.  An existing directory: no error, no change.
\* An existing leaf: the refusal error, no change.
C5_MkDirPolicy ==
    last.op = "MkDir" =>
        CASE last.pre.kind = "absent" /\ last.preErr = "KeyNotFound" ->
                /\ last.err = Nil
                /\ last.post = DirNode(0)
                /\ Current(last) =>
                      /\ ChildKeys(store.tree, last.key) = {}
                      /\ \A k \in Keys : IsProperPrefix(k, last.key)
                                            => store.tree[k].kind = "dir"
          [] last.pre.kind = "absent" /\ last.preErr # "KeyNotFound" ->
                last.err = Error("NotDir") /\ Unchanged(last)
          [] last.pre.kind = "dir" ->
                last.err = Nil /\ Unchanged(last)
          [] OTHER ->
                last.err = RefusingToOverwrite /\ Unchanged(last)

\* C5 witness: a second MkDir on a path the first one created: no error, still a directory.
C5_Witness ==
    /\ last.op = "MkDir"
    /\ last.pre = DirNode(0)
    /\ last.err = Nil
    /\ store.tree[last.key] = DirNode(0)
    /\ store.History # <<>>
    /\ store.History[Len(store.History)].Key = last.key
    /\ store.History[Len(store.History)].Action = "set"

SuppressingOps == {"Get", "Del", "DelDir", "Ls", "LsRecursive"}

\* C6 as claimed: on a key that does not exist the five calls return the
\* empty result and no error, and change nothing.
C6_AbsentIsSuccess ==
    (last.op \in SuppressingOps /\ last.pre.kind = "absent") =>
        /\ last.err = Nil
        /\ last.ret = ""
        /\ last.list = <<>>
        /\ Unchanged(last)

\* C6 amended: on a key that does not exist the five calls change nothing
\* and return the empty result; with no error when the store answers
\* KeyNotFound (no ancestor of the key is a leaf), and with the store's
\* NotDir error when an ancestor of the key is a leaf.
C6_NotFoundSuppressed ==
    (last.op \in SuppressingOps /\ last.pre.kind = "absent") =>
        /\ last.ret = ""
        /\ last.list = <<>>
        /\ Unchanged(last)
        /\ IF last.preErr = "KeyNotFound"
           THEN last.err = Nil
           ELSE last.err = Error("NotDir")

\* C6 witness: Del of a key the store does not hold, in a store that is not empty.
C6_Witness ==
    /\ last.op = "Del"
    /\ last.pre.kind = "absent"
    /\ last.preErr = "KeyNotFound"
    /\ last.err = Nil
    /\ \E k \in Keys : store.tree[k].kind # "absent"

\* C7: a Get of the key of a successful Set, with no write to that key or an
\* ancestor in between, returns the value set and no error.
C7_SetGetRoundTrip ==
    (last.op = "Get" /\ lastSet # NoSet /\ last.key = lastSet.key) =>
        last.ret = lastSet.value /\ last.err = Nil

\* C7 witness: the Set overwrote a leaf holding another value, and the Get read it back.
C7_Witness ==
    /\ last.op = "Get"
    /\ lastSet # NoSet
    /\ last.key = lastSet.key
    /\ lastSet.pre.kind = "leaf"
    /\ lastSet.pre.value # lastSet.value
    /\ last.ret = lastSet.value

C10_MustBeExistingDir ==
    last.op = "UpdateDirWithTTL" =>
        IF last.pre.kind = "dir"
        THEN /\ last.err = Nil
             /\ last.post = DirNode(last.ttl)
             /\ ~last.changedOther
        ELSE last.err # Nil /\ Unchanged(last)

-----------------------------------------------------------------------------
(* Properties of MkDir among concurrent clients, under RaceSpec *)

\* C4: no step of any client turns an existing leaf into a directory or an
\* existing directory into a leaf.
C4_NoKindConversion ==
    [][\A k \in Keys :
          /\ ~(store.tree[k].kind = "leaf" /\ store'.tree[k].kind = "dir")
          /\ ~(store.tree[k].kind = "dir" /\ store'.tree[k].kind = "leaf")]_vars

-----------------------------------------------------------------------------
(* Properties of WatchRecursive, under WatchSpec *)

SeenSinceStart(e) == e.Index > startIdx /\ Matches(e, WatchDir, TRUE)

\* The events under WatchDir the store produced after the watch started.
Expected == SelectSeq(log, SeenSinceStart)

\* C1: the callback invocations are, in order and with no repeat and no gap,
\* the events under the directory since the watch started, and once the
\* callback has run the cursor is the index of the event it was given.
C1_ExactlyOnceInOrder ==
    /\ Len(delivered) <= Len(Expected)
    /\ \A i \in 1..Len(delivered) :
          /\ i <= Len(Expected)
          /\ delivered[i].Index = Expected[i].Index
          /\ delivered[i].Key = Expected[i].Key
          /\ delivered[i].Value = Expected[i].Value
    /\ (pc = "request" /\ delivered # <<>>)
          => afterIndex = delivered[Len(delivered)].Index

\* C2: an EventIndexCleared answer does not end WatchRecursive.
C2_HistoryExpiredRetried ==
    lastAnswer = "EventIndexCleared" => pc # "returned"

\* C3: WatchRecursive has returned exactly when the latest watch request
\* failed with an error other than EventIndexCleared, and it returned that
\* error.
C3_ReturnsOnlyOtherErrors ==
    /\ pc = "returned" <=>
          (IsErrorAnswer(lastAnswer) /\ lastAnswer # "EventIndexCleared")
    /\ pc = "returned" => (retErr # Nil /\ retErr.Code = lastAnswer)

====
